---- MODULE Spec2Model ----
(***************************************************************************)
(* Identity resolution and trust scoring engine of trust-check-backend.    *)
(* The persisted store (Company, PhoneNumber, Person, Report tables), the  *)
(* wall clock and the response of the most recent request are the state;   *)
(* every controller endpoint is one action.  Strings that the code parses  *)
(* (tax ids, phone numbers, names) are sequences of one-character strings. *)
(***************************************************************************)
EXTENDS Integers, Sequences, FiniteSets, TLC

VARIABLES
  company,      \* table Company: nip -> row or NULL
  phoneNumber,  \* table PhoneNumber: number -> row or NULL
  person,       \* table Person: sequence of rows, id = position
  report,       \* table Report: sequence of rows in creation order, id = position
  now,          \* Date.now(), in milliseconds
  last,         \* the request handled last and what its caller saw
  inflight      \* requests in progress: caller -> the await it is at and its locals

vars == <<company, phoneNumber, person, report, now, last, inflight>>

NULL == [null |-> TRUE]
NoKey == <<>>

\* ------------------------------------------------------------------ bounds
MaxTicks == 2
MaxOrgReports == 2
MaxEvidenceReports == 6
MaxEvidenceTicks == 5
MaxPhoneReports == 3
MaxStorageReports == 2
MaxRaceReports == 1
MaxRaceTicks == 2
MaxScoreReports == 3
MaxValidationReports == 2
MaxLinkReports == 3
MaxEngineReports == 1
MaxEngineTicks == 2
MaxNormalizeReports == 2
MaxIdemReports == 2
MaxStaleReports == 2
MaxStaleTicks == 2
MaxBaseReports == 1
MaxBaseTicks == 2
MaxRiskReports == 2
MaxOrderReports == 4
MaxOrderTicks == 1
MaxRejectReports == 2
MaxEditTicks == 2

\* the callers whose requests can overlap
Callers == {"a", "b"}
Idle == [pc |-> "idle"]

\* ------------------------------------------------------------- identifiers
Digits == {"0", "1", "2", "3", "4", "5", "6", "7", "8", "9"}
Letters ==
  {"A", "B", "C", "D", "E", "F", "G", "H", "I", "J", "K", "L", "M",
   "N", "O", "P", "Q", "R", "S", "T", "U", "V", "W", "X", "Y", "Z",
   "a", "b", "c", "d", "e", "f", "g", "h", "i", "j", "k", "l", "m",
   "n", "o", "p", "q", "r", "s", "t", "u", "v", "w", "x", "y", "z"}

NipA == <<"7", "0", "1", "0", "3", "0", "1", "2", "3", "4">>
BadNip == <<"1", "2", "3">>
PhoneE164 == <<"+", "4", "8", "6", "0", "0", "0", "0", "0", "0", "0", "0">>
PhoneRaw == <<"6", "0", "0", "0", "0", "0", "0", "0", "0">>
NameJan == <<"J", "a", "n">>

Nips == {NipA, BadNip}
PhoneKeys == {PhoneE164, PhoneRaw, NameJan}

IsDigits(s) == \A i \in 1..Len(s) : s[i] \in Digits

\* /^\d{10}$/
IsNip(s) == Len(s) = 10 /\ IsDigits(s)

ValidNips == {n \in Nips : IsNip(n)}

\* ---------------------------------------------------------------- clock
ONE_DAY_MS == 24 * 60 * 60 * 1000
TickMs == ONE_DAY_MS \div 2

\* ------------------------------------------------------- report queries
Max(a, b) == IF a >= b THEN a ELSE b

\* orderBy: { createdAt: 'desc' }: every order of the ids with createdAt
\* descending; rows of equal createdAt come in an order the database picks
RECURSIVE OrderByCreatedAtDesc(_)
OrderByCreatedAtDesc(ids) ==
  IF ids = {} THEN {<<>>}
  ELSE LET newest == {i \in ids : \A j \in ids : report[i].createdAt >= report[j].createdAt}
       IN UNION {{<<report[i]>> \o rest : rest \in OrderByCreatedAtDesc(ids \ {i})} : i \in newest}

\* the rows of a sequence that satisfy r.rating <= 2 / r.rating >= 4
NegativeCount(s) == Cardinality({i \in 1..Len(s) : s[i].rating <= 2})
PositiveCount(s) == Cardinality({i \in 1..Len(s) : s[i].rating >= 4})

\* reports.service.ts getStatsForTarget: the candidate results of its query
StatsEntries(targetValue) ==
  IF IsNip(targetValue)
  THEN OrderByCreatedAtDesc({i \in 1..Len(report) : report[i].companyNip = targetValue})
  ELSE OrderByCreatedAtDesc({i \in 1..Len(report) : report[i].phoneNumber = targetValue})

getStatsForTarget(reports) ==
  [total |-> Len(reports),
   negative |-> NegativeCount(reports),
   positive |-> PositiveCount(reports),
   entries |-> reports]

\* ------------------------------------------------------ external registry
Subjects ==
  {[name |-> "ACME", statusVat |-> sv, accountNumbers |-> acc] :
     sv \in {"Czynny", "Zwolniony"}, acc \in {<<>>, <<"PL61">>}}
OrgSubjects ==
  {[name |-> "ACME", statusVat |-> "Czynny", accountNumbers |-> <<"PL61">>],
   [name |-> "ACME", statusVat |-> "Zwolniony", accountNumbers |-> <<>>]}

\* what the registry's HTTP endpoint does; cause is the environment's truth
HttpResponses(subjects) ==
  {[kind |-> "error", cause |-> "transport", subject |-> NULL],
   [kind |-> "ok", cause |-> "malformed", subject |-> NULL],
   [kind |-> "ok", cause |-> "notfound", subject |-> NULL]}
  \cup {[kind |-> "ok", cause |-> "found", subject |-> s] : s \in subjects}

\* checkVatStatus reporting a response without subject as found
checkVatStatusFoundWithoutSubject(http) ==
  IF http.kind = "error"
  THEN [throws |-> "HttpException"]
  ELSE [throws |-> "none",
        value |-> [found |-> TRUE, source |-> "MF_Biala_Lista",
                   name |-> IF http.subject = NULL THEN "" ELSE http.subject.name,
                   statusVat |-> IF http.subject = NULL THEN "Nieznany"
                                 ELSE http.subject.statusVat,
                   accountNumbers |-> IF http.subject = NULL THEN <<>>
                                      ELSE http.subject.accountNumbers]]

\* VatService.checkVatStatus
checkVatStatus(http) ==
  IF http.kind = "error"
  THEN [throws |-> "HttpException"]
  ELSE IF http.subject = NULL
       THEN [throws |-> "none",
             value |-> [found |-> FALSE, source |-> "MF_Biala_Lista", status |-> "Nieznany"]]
       ELSE [throws |-> "none",
             value |-> [found |-> TRUE, source |-> "MF_Biala_Lista",
                        name |-> http.subject.name,
                        statusVat |-> http.subject.statusVat,
                        accountNumbers |-> http.subject.accountNumbers]]

\* --------------------------------------------------- organization path
\* isFresh counting a row of exactly 24 hours as fresh
isFreshInclusive(cachedCompany, t) ==
  cachedCompany # NULL /\ t - cachedCompany.updatedAt <= ONE_DAY_MS

\* isFresh with the comparison turned around
isFreshInverted(cachedCompany, t) ==
  cachedCompany # NULL /\ t - cachedCompany.updatedAt > ONE_DAY_MS

isFresh(cachedCompany, t) ==
  cachedCompany # NULL /\ t - cachedCompany.updatedAt < ONE_DAY_MS

\* the base score granting the 40 points for any VAT status
calculateInitialTrustScoreAnyStatus(vatData) ==
  (IF vatData.found THEN 30 ELSE 0)
  + (IF vatData.statusVat # "" THEN 40 ELSE 0)
  + (IF Len(vatData.accountNumbers) > 0 THEN 20 ELSE 0)

calculateInitialTrustScore(vatData) ==
  (IF vatData.found THEN 30 ELSE 0)
  + (IF vatData.statusVat = "Czynny" THEN 40 ELSE 0)
  + (IF Len(vatData.accountNumbers) > 0 THEN 20 ELSE 0)

\* the thresholds compared with > instead of >=
calculateRiskLevelExclusive(score) ==
  IF score > 80 THEN "Very Low"
  ELSE IF score > 50 THEN "Medium"
  ELSE IF score > 20 THEN "High"
  ELSE "Critical"

calculateRiskLevel(score) ==
  IF score >= 80 THEN "Very Low"
  ELSE IF score >= 50 THEN "Medium"
  ELSE IF score >= 20 THEN "High"
  ELSE "Critical"

\* the schema's @updatedAt column: every write of a row stamps it
UpdatedAtStamp(t) == t

\* the upsert with an empty update: an existing row stays as it is
upsertCompanyDataKeepRow(nip, vatData, trustScore, t) ==
  IF company[nip] = NULL
  THEN [nip |-> nip, name |-> vatData.name, statusVat |-> vatData.statusVat,
        trustScore |-> trustScore, riskLevel |-> calculateRiskLevel(trustScore),
        rawData |-> vatData, updatedAt |-> UpdatedAtStamp(t)]
  ELSE company[nip]

\* the upsert whose update leaves the stored score and risk level alone
upsertCompanyDataKeepScore(nip, vatData, trustScore, t) ==
  IF company[nip] = NULL
  THEN [nip |-> nip, name |-> vatData.name, statusVat |-> vatData.statusVat,
        trustScore |-> trustScore, riskLevel |-> calculateRiskLevel(trustScore),
        rawData |-> vatData, updatedAt |-> UpdatedAtStamp(t)]
  ELSE [company[nip] EXCEPT !.name = vatData.name, !.statusVat = vatData.statusVat,
        !.rawData = vatData, !.updatedAt = UpdatedAtStamp(t)]

upsertCompanyData(nip, vatData, trustScore, t) ==
  IF company[nip] = NULL
  THEN [nip |-> nip, name |-> vatData.name, statusVat |-> vatData.statusVat,
        trustScore |-> trustScore, riskLevel |-> calculateRiskLevel(trustScore),
        rawData |-> vatData, updatedAt |-> UpdatedAtStamp(t)]
  ELSE [company[nip] EXCEPT !.name = vatData.name, !.statusVat = vatData.statusVat,
        !.trustScore = trustScore, !.riskLevel = calculateRiskLevel(trustScore),
        !.rawData = vatData, !.updatedAt = UpdatedAtStamp(t)]

\* include: { phones: true }
CompanyPhones(nip) ==
  {k \in PhoneKeys : phoneNumber[k] # NULL /\ phoneNumber[k].companyNip = nip}

\* entries.slice(-5).map(...)
mapReportComments(entries) ==
  LET n == Len(entries)
      tail == SubSeq(entries, Max(1, n - 4), n)
  IN [i \in 1..Len(tail) |->
        [id |-> tail[i].id, date |-> tail[i].createdAt, rating |-> tail[i].rating,
         phoneNumber |-> tail[i].phoneNumber]]

buildVerificationResponse(nip, trustScore, source, companyData, phones, reportStats) ==
  [query |-> nip,
   trustScore |-> trustScore,
   riskLevel |-> calculateRiskLevel(trustScore),
   source |-> source,
   phones |-> phones,
   company |-> IF companyData # NULL
               THEN [name |-> companyData.name, nip |-> companyData.nip,
                     vat |-> companyData.statusVat]
               ELSE [name |-> "No data", nip |-> nip, vat |-> "Unknown"],
   community |-> [alerts |-> reportStats.negative,
                  totalReports |-> reportStats.total,
                  latestComments |-> mapReportComments(reportStats.entries)]]

\* the final calculation without Math.max(0, ...)
FinalTrustScoreNoFloor(baseTrustScore, reportStats) ==
  IF reportStats.negative > 0
  THEN baseTrustScore - reportStats.negative * 15
  ELSE baseTrustScore

\* the final calculation with the penalty of the phone path for unknown numbers
FinalTrustScorePenalty20(baseTrustScore, reportStats) ==
  Max(0, IF reportStats.negative > 0
         THEN baseTrustScore - reportStats.negative * 20
         ELSE baseTrustScore)

\* the final calculation of verifyCompany
FinalTrustScore(baseTrustScore, reportStats) ==
  Max(0, IF reportStats.negative > 0
         THEN baseTrustScore - reportStats.negative * 15
         ELSE baseTrustScore)

\* the catch block of verifyCompany
RethrowFromVerifyCompany(error) ==
  IF error \in {"BadRequestException", "NotFoundException"} THEN error ELSE "Error"

\* verifyCompany removing the stale row of a tax id that the registry no longer knows
verifyCompanyDropsUnknown(nip, http, reports, t) ==
  IF ~IsNip(nip)
  THEN [svc |-> "BadRequestException", result |-> NULL, row |-> NULL, called |-> FALSE]
  ELSE
    LET reportStats == getStatsForTarget(reports)
        cachedCompany == company[nip]
        phones == IF cachedCompany = NULL THEN {} ELSE CompanyPhones(nip)
    IN IF isFresh(cachedCompany, t)
       THEN [svc |-> "ok",
             result |-> buildVerificationResponse(nip,
                          FinalTrustScore(cachedCompany.trustScore, reportStats),
                          "CACHE_DB", cachedCompany, phones, reportStats),
             row |-> cachedCompany, called |-> FALSE]
       ELSE
         LET vat == checkVatStatus(http)
         IN IF vat.throws # "none"
            THEN [svc |-> RethrowFromVerifyCompany(vat.throws), result |-> NULL,
                  row |-> cachedCompany, called |-> TRUE]
            ELSE IF ~vat.value.found
            THEN [svc |-> RethrowFromVerifyCompany("NotFoundException"), result |-> NULL,
                  row |-> NULL, called |-> TRUE]
            ELSE
              LET baseTrustScore == calculateInitialTrustScore(vat.value)
                  companyData == upsertCompanyData(nip, vat.value, baseTrustScore, t)
              IN [svc |-> "ok",
                  result |-> buildVerificationResponse(nip,
                               FinalTrustScore(baseTrustScore, reportStats),
                               "LIVE_API", companyData, phones, reportStats),
                  row |-> companyData, called |-> TRUE]

\* verifyCompany storing the score it returns, reduced by the reports' penalty
verifyCompanyStoresFinalScore(nip, http, reports, t) ==
  IF ~IsNip(nip)
  THEN [svc |-> "BadRequestException", result |-> NULL, row |-> NULL, called |-> FALSE]
  ELSE
    LET reportStats == getStatsForTarget(reports)
        cachedCompany == company[nip]
        phones == IF cachedCompany = NULL THEN {} ELSE CompanyPhones(nip)
    IN IF isFresh(cachedCompany, t)
       THEN [svc |-> "ok",
             result |-> buildVerificationResponse(nip,
                          FinalTrustScore(cachedCompany.trustScore, reportStats),
                          "CACHE_DB", cachedCompany, phones, reportStats),
             row |-> cachedCompany, called |-> FALSE]
       ELSE
         LET vat == checkVatStatus(http)
         IN IF vat.throws # "none"
            THEN [svc |-> RethrowFromVerifyCompany(vat.throws), result |-> NULL,
                  row |-> cachedCompany, called |-> TRUE]
            ELSE IF ~vat.value.found
            THEN [svc |-> RethrowFromVerifyCompany("NotFoundException"), result |-> NULL,
                  row |-> cachedCompany, called |-> TRUE]
            ELSE
              LET baseTrustScore == calculateInitialTrustScore(vat.value)
                  finalTrustScore == FinalTrustScore(baseTrustScore, reportStats)
                  companyData == upsertCompanyData(nip, vat.value, finalTrustScore, t)
              IN [svc |-> "ok",
                  result |-> buildVerificationResponse(nip, finalTrustScore,
                               "LIVE_API", companyData, phones, reportStats),
                  row |-> companyData, called |-> TRUE]

\* VerificationService.verifyCompany, for the rows `reports` that the report
\* query returned and the registry's behaviour `http`:
\* [svc: what it throws or "ok", result, row: the Company row afterwards,
\*  called: whether the registry was called]
verifyCompany(nip, http, reports, t) ==
  IF ~IsNip(nip)
  THEN [svc |-> "BadRequestException", result |-> NULL, row |-> NULL, called |-> FALSE]
  ELSE
    LET reportStats == getStatsForTarget(reports)
        cachedCompany == company[nip]
        phones == IF cachedCompany = NULL THEN {} ELSE CompanyPhones(nip)
    IN IF isFresh(cachedCompany, t)
       THEN [svc |-> "ok",
             result |-> buildVerificationResponse(nip,
                          FinalTrustScore(cachedCompany.trustScore, reportStats),
                          "CACHE_DB", cachedCompany, phones, reportStats),
             row |-> cachedCompany, called |-> FALSE]
       ELSE
         LET vat == checkVatStatus(http)
         IN IF vat.throws # "none"
            THEN [svc |-> RethrowFromVerifyCompany(vat.throws), result |-> NULL,
                  row |-> cachedCompany, called |-> TRUE]
            ELSE IF ~vat.value.found
            THEN [svc |-> RethrowFromVerifyCompany("NotFoundException"), result |-> NULL,
                  row |-> cachedCompany, called |-> TRUE]
            ELSE
              LET baseTrustScore == calculateInitialTrustScore(vat.value)
                  companyData == upsertCompanyData(nip, vat.value, baseTrustScore, t)
              IN [svc |-> "ok",
                  result |-> buildVerificationResponse(nip,
                               FinalTrustScore(baseTrustScore, reportStats),
                               "LIVE_API", companyData, phones, reportStats),
                  row |-> companyData, called |-> TRUE]

\* ValidationPipe over CheckCompanyDto
CheckCompanyDtoValid(nip) == Len(nip) = 10 /\ IsDigits(nip)

\* the catch block of VerificationController.checkCompany: what the caller sees
CheckCompanyVisible(svc) ==
  IF svc = "ok" THEN [status |-> 200, message |-> "OK"]
  ELSE IF svc = "BadRequestException" THEN [status |-> 400, message |-> "Bad Request"]
  ELSE [status |-> 500, message |-> "Company verification failed"]

\* GET verification/company/:nip
CheckCompany(nip, http) ==
  IF ~CheckCompanyDtoValid(nip)
  THEN /\ last' = [op |-> "checkCompany", query |-> nip, svc |-> "not called",
                   visible |-> [status |-> 400, message |-> "Bad Request"],
                   result |-> NULL, called |-> FALSE, reg |-> "none",
                   subject |-> NULL, at |-> now]
       /\ UNCHANGED <<company, phoneNumber, person, report, now, inflight>>
  ELSE \E reports \in StatsEntries(nip) :
         LET r == verifyCompany(nip, http, reports, now)
         IN /\ company' = [company EXCEPT ![nip] = r.row]
            /\ last' = [op |-> "checkCompany", query |-> nip, svc |-> r.svc,
                        visible |-> CheckCompanyVisible(r.svc), result |-> r.result,
                        called |-> r.called,
                        reg |-> IF r.called THEN http.cause ELSE "none",
                        subject |-> IF r.called THEN http.subject ELSE NULL, at |-> now]
            /\ UNCHANGED <<phoneNumber, person, report, now, inflight>>

\* ------------------------- verify-organization, one await after the other
\* the request of caller c ends: its caller sees the outcome
Respond(c, rec, svc, result, called, reg) ==
  /\ inflight' = [inflight EXCEPT ![c] =
                    [pc |-> "done", nip |-> rec.nip, svc |-> svc, result |-> result,
                     called |-> called, reg |-> reg,
                     cachedCompany |-> rec.cachedCompany, at |-> now]]
  /\ last' = [op |-> "checkCompany", query |-> rec.nip, svc |-> svc,
              visible |-> CheckCompanyVisible(svc), result |-> result,
              called |-> called, reg |-> reg, at |-> now]

\* the request arrives: the tax id passes validation and the report query is issued
BeginVerify(c, nip) ==
  /\ inflight[c].pc = "idle"
  /\ CheckCompanyDtoValid(nip) /\ IsNip(nip)
  /\ inflight' = [inflight EXCEPT ![c] = [pc |-> "getStatsForTarget", nip |-> nip]]
  /\ UNCHANGED <<company, phoneNumber, person, report, now, last>>

\* await this.reportsService.getStatsForTarget(nip)
ReadStats(c) ==
  /\ inflight[c].pc = "getStatsForTarget"
  /\ \E reports \in StatsEntries(inflight[c].nip) :
       inflight' = [inflight EXCEPT ![c] =
                      [pc |-> "findUnique", nip |-> inflight[c].nip, reports |-> reports]]
  /\ UNCHANGED <<company, phoneNumber, person, report, now, last>>

\* await this.prisma.company.findUnique(...), the freshness test and, for a
\* fresh row, the answer from the store
ReadCompany(c) ==
  /\ inflight[c].pc = "findUnique"
  /\ LET nip == inflight[c].nip
         cachedCompany == company[nip]
         phones == IF cachedCompany = NULL THEN {} ELSE CompanyPhones(nip)
         reportStats == getStatsForTarget(inflight[c].reports)
         rec == [pc |-> "checkVatStatus", nip |-> nip, reports |-> inflight[c].reports,
                 cachedCompany |-> cachedCompany, phones |-> phones]
     IN IF isFresh(cachedCompany, now)
        THEN Respond(c, rec, "ok",
                     buildVerificationResponse(nip,
                       FinalTrustScore(cachedCompany.trustScore, reportStats),
                       "CACHE_DB", cachedCompany, phones, reportStats),
                     FALSE, "none")
        ELSE inflight' = [inflight EXCEPT ![c] = rec] /\ UNCHANGED last
  /\ UNCHANGED <<company, phoneNumber, person, report, now>>

\* await this.vatService.checkVatStatus(nip)
CallRegistry(c, http) ==
  /\ inflight[c].pc = "checkVatStatus"
  /\ LET rec == inflight[c]
         vat == checkVatStatus(http)
     IN IF vat.throws # "none"
        THEN Respond(c, rec, RethrowFromVerifyCompany(vat.throws), NULL, TRUE, http.cause)
        ELSE IF ~vat.value.found
        THEN Respond(c, rec, RethrowFromVerifyCompany("NotFoundException"), NULL, TRUE,
                     http.cause)
        ELSE /\ inflight' = [inflight EXCEPT ![c] =
                               [pc |-> "upsert", nip |-> rec.nip, reports |-> rec.reports,
                                cachedCompany |-> rec.cachedCompany, phones |-> rec.phones,
                                vatData |-> vat.value, reg |-> http.cause]]
             /\ UNCHANGED last
  /\ UNCHANGED <<company, phoneNumber, person, report, now>>

\* await this.upsertCompanyData(nip, vatData, baseTrustScore), the final
\* calculation and the answer
WriteCompany(c) ==
  /\ inflight[c].pc = "upsert"
  /\ LET rec == inflight[c]
         reportStats == getStatsForTarget(rec.reports)
         baseTrustScore == calculateInitialTrustScore(rec.vatData)
         companyData == upsertCompanyData(rec.nip, rec.vatData, baseTrustScore, now)
     IN /\ company' = [company EXCEPT ![rec.nip] = companyData]
        /\ Respond(c, rec, "ok",
                   buildVerificationResponse(rec.nip,
                     FinalTrustScore(baseTrustScore, reportStats),
                     "LIVE_API", companyData, rec.phones, reportStats),
                   TRUE, rec.reg)
  /\ UNCHANGED <<phoneNumber, person, report, now>>

\* ------------------------------------------------------- report creation
\* a connect that does not look for the row it connects to
CompanyRowUnchecked(nip) ==
  IF nip \in DOMAIN company /\ company[nip] # NULL THEN company[nip]
  ELSE [nip |-> nip, name |-> "", statusVat |-> "", trustScore |-> 0,
        riskLevel |-> "", rawData |-> NULL, updatedAt |-> 0]

CompanyRow(nip) == IF nip \in DOMAIN company THEN company[nip] ELSE NULL

\* the Report row without the phone: { connect: { number } } of its data
NewReportWithoutPhoneLink(dto, companyNip, phone) ==
  [id |-> Len(report) + 1, rating |-> dto.rating, companyNip |-> companyNip,
   phoneNumber |-> NoKey, personId |-> 0, createdAt |-> now]

\* the Report row that prisma.report.create inserts
NewReport(dto, companyNip, phone) ==
  [id |-> Len(report) + 1, rating |-> dto.rating, companyNip |-> companyNip,
   phoneNumber |-> phone, personId |-> 0, createdAt |-> now]

\* the upsert of ReportsService.create creating the row with the score of a linked number
UpsertReportedPhoneLinkedScore(number) ==
  IF phoneNumber[number] # NULL THEN phoneNumber[number]
  ELSE [number |-> number, countryCode |-> "PL", trustScore |-> 70,
        riskLevel |-> "Nieznany", companyNip |-> NoKey]

\* prisma.phoneNumber.upsert of ReportsService.create: update: {} leaves a row as it is
UpsertReportedPhone(number) ==
  IF phoneNumber[number] # NULL THEN phoneNumber[number]
  ELSE [number |-> number, countryCode |-> "PL", trustScore |-> 50,
        riskLevel |-> "Nieznany", companyNip |-> NoKey]

\* ReportsService.create; `max` caps the size of the Report table
CreateReport(dto, max) ==
  /\ Len(report) < max
  /\ IF dto.targetType = "NIP"
     THEN IF CompanyRow(dto.targetValue) # NULL
          THEN /\ report' = Append(report, NewReport(dto, dto.targetValue, NoKey))
               /\ last' = [op |-> "createReport", dto |-> dto, outcome |-> "created"]
               /\ UNCHANGED phoneNumber
          ELSE \* company: { connect: { nip } } finds no row
               /\ last' = [op |-> "createReport", dto |-> dto, outcome |-> "Error"]
               /\ UNCHANGED <<report, phoneNumber>>
     ELSE IF dto.targetType \in {"PHONE", "PERSON"}
     THEN /\ phoneNumber' = [phoneNumber EXCEPT ![dto.targetValue] =
                               UpsertReportedPhone(dto.targetValue)]
          /\ report' = Append(report, NewReport(dto, NoKey, dto.targetValue))
          /\ last' = [op |-> "createReport", dto |-> dto, outcome |-> "created"]
     ELSE /\ last' = [op |-> "createReport", dto |-> dto, outcome |-> "BadRequestException"]
          /\ UNCHANGED <<report, phoneNumber>>
  /\ UNCHANGED <<company, person, now, inflight>>

\* ReportsService.create for a PHONE or PERSON target, one await after the
\* other: first await this.prisma.phoneNumber.upsert(...)
UpsertPhoneForReport(c, dto, max) ==
  /\ inflight[c].pc = "idle"
  /\ dto.targetType \in {"PHONE", "PERSON"}
  /\ Len(report) + Cardinality({d \in Callers : inflight[d].pc # "idle"}) < max
  /\ phoneNumber' = [phoneNumber EXCEPT ![dto.targetValue] =
                        UpsertReportedPhone(dto.targetValue)]
  /\ inflight' = [inflight EXCEPT ![c] = [pc |-> "report.create", dto |-> dto]]
  /\ UNCHANGED <<company, person, report, now, last>>

\* then this.prisma.report.create with phone: { connect: { number } }, which
\* fails when no PhoneNumber row of that number exists
ConnectReport(c) ==
  /\ inflight[c].pc = "report.create"
  /\ LET dto == inflight[c].dto
     IN IF phoneNumber[dto.targetValue] # NULL
        THEN /\ report' = Append(report, NewReport(dto, NoKey, dto.targetValue))
             /\ last' = [op |-> "createReport", dto |-> dto, outcome |-> "created"]
        ELSE /\ last' = [op |-> "createReport", dto |-> dto, outcome |-> "Error"]
             /\ UNCHANGED report
  /\ inflight' = [inflight EXCEPT ![c] = Idle]
  /\ UNCHANGED <<company, phoneNumber, person, now>>

\* ------------------------------------------------------------- admin
\* VerificationService.updateCompany behind PATCH admin/company/:nip
UpdateCompany(nip, data) ==
  /\ IF ~IsNip(nip)
     THEN /\ last' = [op |-> "updateCompany", nip |-> nip, outcome |-> "BadRequestException"]
          /\ UNCHANGED company
     ELSE IF company[nip] = NULL
     THEN /\ last' = [op |-> "updateCompany", nip |-> nip, outcome |-> "Error"]
          /\ UNCHANGED company
     ELSE /\ company' = [company EXCEPT ![nip] =
                           [@ EXCEPT !.name = data.name, !.trustScore = data.trustScore,
                                     !.riskLevel = data.riskLevel,
                                     !.statusVat = data.statusVat,
                                     !.updatedAt = UpdatedAtStamp(now)]]
          /\ last' = [op |-> "updateCompany", nip |-> nip, outcome |-> "updated"]
  /\ UNCHANGED <<phoneNumber, person, report, now, inflight>>

\* the Company row that linkPhoneToCompany creates when there is none
ManualEntry(nip) ==
  [nip |-> nip, name |-> "Manual Entry", statusVat |-> "Unknown", trustScore |-> 50,
   riskLevel |-> "Unknown", rawData |-> NULL, updatedAt |-> UpdatedAtStamp(now)]

\* prisma.phoneNumber.upsert of linkPhoneToCompany
UpsertLinkedPhone(nip, number) ==
  IF phoneNumber[number] # NULL
  THEN [phoneNumber[number] EXCEPT !.companyNip = nip, !.trustScore = 70]
  ELSE [number |-> number, countryCode |-> "PL", trustScore |-> 70,
        riskLevel |-> "Nieznany", companyNip |-> nip]

\* VerificationService.linkPhoneToCompany behind POST admin/link-phone
LinkPhone(nip, number) ==
  /\ IF ~IsNip(nip) \/ Len(number) = 0
     THEN /\ last' = [op |-> "linkPhone", nip |-> nip, outcome |-> "BadRequestException"]
          /\ UNCHANGED <<company, phoneNumber>>
     ELSE /\ company' = IF company[nip] = NULL
                        THEN [company EXCEPT ![nip] = ManualEntry(nip)]
                        ELSE company
          /\ phoneNumber' = [phoneNumber EXCEPT ![number] = UpsertLinkedPhone(nip, number)]
          /\ last' = [op |-> "linkPhone", nip |-> nip, outcome |-> "linked"]
  /\ UNCHANGED <<person, report, now, inflight>>

\* ----------------------------------------------------- phone / person path
\* PHONE_REGEX = /[a-zA-Z]/
ContainsLetter(s) == \E i \in 1..Len(s) : s[i] \in Letters

Separators == {" ", "-", "(", ")", ".", "/"}
StripSeparators(s) == SelectSeq(s, LAMBDA c : c \notin Separators)

PL == <<"4", "8">>
StartsWith(s, prefix) == Len(s) >= Len(prefix) /\ SubSeq(s, 1, Len(prefix)) = prefix
DropFirst(s, n) == SubSeq(s, n + 1, Len(s))

\* phoneUtil.parseAndKeepRawInput(rawInput, 'PL') of google-libphonenumber, for
\* numbers of the default region: separators are dropped; "+48" and the
\* international prefix "00" followed by 48 give the country code; a national
\* string too long for the region that starts with 48 loses that prefix
ParsePhone(rawInput) ==
  LET s == StripSeparators(rawInput)
      international(d) ==
        IF IsDigits(d) /\ Len(d) > 2 /\ StartsWith(d, PL)
        THEN [ok |-> TRUE, countryCode |-> PL, national |-> DropFirst(d, 2)]
        ELSE [ok |-> FALSE]
  IN IF Len(s) > 0 /\ s[1] = "+" THEN international(Tail(s))
     ELSE IF Len(s) < 2 \/ ~IsDigits(s) THEN [ok |-> FALSE]
     ELSE IF StartsWith(s, <<"0", "0">>) THEN international(DropFirst(s, 2))
     ELSE IF StartsWith(s, PL) /\ Len(s) > 9
     THEN [ok |-> TRUE, countryCode |-> PL, national |-> DropFirst(s, 2)]
     ELSE [ok |-> TRUE, countryCode |-> PL, national |-> s]

\* phoneUtil.isValidNumber: a Polish national number has 9 digits, the first not 0
IsValidNumber(parsed) ==
  parsed.ok /\ Len(parsed.national) = 9 /\ parsed.national[1] # "0"

\* the formatter leaving out the country code
FormatE164WithoutCountryCode(parsed) == <<"+">> \o parsed.national

\* phoneUtil.format(number, PhoneNumberFormat.E164)
FormatE164(parsed) == <<"+">> \o parsed.countryCode \o parsed.national

\* parseAndValidatePhone formatting the number before it validates it
parseAndValidatePhoneFormatsFirst(rawInput) ==
  IF ~ContainsLetter(rawInput) /\ ParsePhone(rawInput).ok
  THEN [formattedQuery |-> FormatE164(ParsePhone(rawInput)),
        isPhone |-> IsValidNumber(ParsePhone(rawInput))]
  ELSE [formattedQuery |-> rawInput, isPhone |-> FALSE]

\* PhoneVerificationService.parseAndValidatePhone
parseAndValidatePhone(rawInput) ==
  IF ~ContainsLetter(rawInput) /\ IsValidNumber(ParsePhone(rawInput))
  THEN [formattedQuery |-> FormatE164(ParsePhone(rawInput)), isPhone |-> TRUE]
  ELSE [formattedQuery |-> rawInput, isPhone |-> FALSE]

PhoneRow(number) == IF number \in DOMAIN phoneNumber THEN phoneNumber[number] ELSE NULL

\* prisma.phoneNumber.findUnique with its reports (newest first) and its company
PhoneEntries(formattedQuery, isPhone) ==
  IF isPhone /\ PhoneRow(formattedQuery) # NULL
  THEN {[number |-> formattedQuery,
         trustScore |-> phoneNumber[formattedQuery].trustScore,
         riskLevel |-> phoneNumber[formattedQuery].riskLevel,
         reports |-> rs,
         company |-> CompanyRow(phoneNumber[formattedQuery].companyNip)] :
          rs \in OrderByCreatedAtDesc(
                   {i \in 1..Len(report) : report[i].phoneNumber = formattedQuery})}
  ELSE {NULL}

\* prisma.person.findFirst({ where: { name } }) with its reports (newest first)
PersonEntries(formattedQuery) ==
  LET found == {i \in 1..Len(person) : person[i].name = formattedQuery}
  IN IF found = {} THEN {NULL}
     ELSE UNION {{[name |-> person[i].name, trustScore |-> person[i].trustScore,
                   riskLevel |-> person[i].riskLevel, reports |-> rs] :
                    rs \in OrderByCreatedAtDesc(
                             {j \in 1..Len(report) : report[j].personId = i})} :
                 i \in found}

\* what the two lookups of fetchDatabaseEntries meet in the database: each
\* answers or rejects (connection lost, query timeout)
StorageOutcomes == {[phone |-> a, person |-> b] : a, b \in {"ok", "error"}}
StorageHealthy == [phone |-> "ok", person |-> "ok"]

\* the lookups of fetchDatabaseEntries that rejected
FailedLookups(isPhone, storage) ==
  (IF isPhone /\ storage.phone = "error" THEN {"phoneNumber.findUnique"} ELSE {})
  \cup (IF storage.person = "error" THEN {"person.findFirst"} ELSE {})

\* PhoneVerificationService.fetchDatabaseEntries: the candidate results; a
\* lookup that rejects is logged and leaves its entry null
fetchDatabaseEntries(formattedQuery, isPhone, storage) ==
  {[dbPhoneEntry |-> ph, dbPersonEntry |-> pe] :
     ph \in IF storage.phone = "error" THEN {NULL}
            ELSE PhoneEntries(formattedQuery, isPhone),
     pe \in IF storage.person = "error" THEN {NULL}
            ELSE PersonEntries(formattedQuery)}

\* fetchDatabaseEntries upserting the number it looks up
PhoneTableAfterFetchUpsert(formattedQuery, isPhone) ==
  IF isPhone /\ PhoneRow(formattedQuery) = NULL /\ formattedQuery \in DOMAIN phoneNumber
  THEN [phoneNumber EXCEPT ![formattedQuery] =
          [number |-> formattedQuery, countryCode |-> "PL", trustScore |-> 50,
           riskLevel |-> "Nieznany", companyNip |-> NoKey]]
  ELSE phoneNumber

\* the PhoneNumber table after fetchDatabaseEntries: it only reads
PhoneTableAfterFetch(formattedQuery, isPhone) == phoneNumber

aggregateReports(dbPhoneEntry, dbPersonEntry) ==
  [phoneReports |-> IF dbPhoneEntry # NULL THEN dbPhoneEntry.reports ELSE <<>>,
   personReports |-> IF dbPersonEntry # NULL THEN dbPersonEntry.reports ELSE <<>>,
   company |-> IF dbPhoneEntry # NULL THEN dbPhoneEntry.company ELSE NULL]

\* the duplicate filter keeping every element
UniqueByIdKeepAll(s, seen) == s

\* allReports.filter((obj, index, self) => index === self.findIndex(t => t.id === obj.id))
RECURSIVE UniqueById(_, _)
UniqueById(s, seen) ==
  IF s = <<>> THEN <<>>
  ELSE IF Head(s).id \in seen THEN UniqueById(Tail(s), seen)
  ELSE <<Head(s)>> \o UniqueById(Tail(s), seen \cup {Head(s).id})

\* a sort that puts an element before the elements of equal creation time
RECURSIVE InsertByCreatedAtDescBeforeEqual(_, _)
InsertByCreatedAtDescBeforeEqual(sorted, r) ==
  IF sorted = <<>> THEN <<r>>
  ELSE IF Head(sorted).createdAt > r.createdAt
       THEN <<Head(sorted)>> \o InsertByCreatedAtDescBeforeEqual(Tail(sorted), r)
       ELSE <<r>> \o sorted

\* Array.prototype.sort with (a, b) => b.createdAt - a.createdAt: stable
RECURSIVE InsertByCreatedAtDesc(_, _)
InsertByCreatedAtDesc(sorted, r) ==
  IF sorted = <<>> THEN <<r>>
  ELSE IF Head(sorted).createdAt >= r.createdAt
       THEN <<Head(sorted)>> \o InsertByCreatedAtDesc(Tail(sorted), r)
       ELSE <<r>> \o sorted

RECURSIVE StableSortByCreatedAtDesc(_)
StableSortByCreatedAtDesc(s) ==
  IF s = <<>> THEN <<>>
  ELSE InsertByCreatedAtDesc(StableSortByCreatedAtDesc(SubSeq(s, 1, Len(s) - 1)), s[Len(s)])

mergeAndSortReports(phoneReports, personReports) ==
  StableSortByCreatedAtDesc(UniqueById(phoneReports \o personReports, {}))

\* 'Podwyższone', written in ASCII
Podwyzszone == "Podwyzszone"

\* calculateTrustMetrics adjusting every stored score, not only the default 50
calculateTrustMetricsAlwaysAdjust(allReports, dbPhoneEntry, dbPersonEntry) ==
  LET stored == IF dbPhoneEntry # NULL THEN dbPhoneEntry.trustScore
                ELSE IF dbPersonEntry # NULL THEN dbPersonEntry.trustScore
                ELSE 50
      storedRisk == IF dbPhoneEntry # NULL THEN dbPhoneEntry.riskLevel
                    ELSE IF dbPersonEntry # NULL THEN dbPersonEntry.riskLevel
                    ELSE "Nieznany"
      negativeReports == NegativeCount(allReports)
      existsInDb == dbPhoneEntry # NULL \/ dbPersonEntry # NULL
      adjusted ==
        IF ~existsInDb
        THEN IF negativeReports > 0
             THEN [trustScore |-> stored - negativeReports * 20, riskLevel |-> "Wysoki"]
             ELSE [trustScore |-> stored, riskLevel |-> "Brak danych"]
        ELSE IF negativeReports > 0
        THEN [trustScore |-> stored - negativeReports * 15, riskLevel |-> Podwyzszone]
        ELSE [trustScore |-> stored, riskLevel |-> storedRisk]
  IN [trustScore |-> Max(adjusted.trustScore, 0), riskLevel |-> adjusted.riskLevel]

calculateTrustMetrics(allReports, dbPhoneEntry, dbPersonEntry) ==
  LET stored == IF dbPhoneEntry # NULL THEN dbPhoneEntry.trustScore
                ELSE IF dbPersonEntry # NULL THEN dbPersonEntry.trustScore
                ELSE 50
      storedRisk == IF dbPhoneEntry # NULL THEN dbPhoneEntry.riskLevel
                    ELSE IF dbPersonEntry # NULL THEN dbPersonEntry.riskLevel
                    ELSE "Nieznany"
      negativeReports == NegativeCount(allReports)
      existsInDb == dbPhoneEntry # NULL \/ dbPersonEntry # NULL
      adjusted ==
        IF ~existsInDb
        THEN IF negativeReports > 0
             THEN [trustScore |-> stored - negativeReports * 20, riskLevel |-> "Wysoki"]
             ELSE [trustScore |-> stored, riskLevel |-> "Brak danych"]
        ELSE IF negativeReports > 0 /\ stored = 50
        THEN [trustScore |-> stored - negativeReports * 15, riskLevel |-> Podwyzszone]
        ELSE [trustScore |-> stored, riskLevel |-> storedRisk]
  IN [trustScore |-> Max(adjusted.trustScore, 0), riskLevel |-> adjusted.riskLevel]

\* PhoneVerificationService.buildVerificationResponse
buildPhoneResponse(query, isPhone, trustScore, riskLevel, companyData, allReports, existsInDb) ==
  [query |-> query,
   isPhone |-> isPhone,
   trustScore |-> trustScore,
   riskLevel |-> riskLevel,
   source |-> IF existsInDb THEN "DB" ELSE "None",
   company |-> IF companyData # NULL
               THEN [name |-> companyData.name, nip |-> companyData.nip,
                     vat |-> companyData.statusVat]
               ELSE NULL,
   community |-> [alerts |-> NegativeCount(allReports),
                  totalReports |-> Len(allReports),
                  latestComments |->
                    [i \in 1..Len(allReports) |->
                       [id |-> allReports[i].id, date |-> allReports[i].createdAt,
                        rating |-> allReports[i].rating,
                        phoneNumber |-> allReports[i].phoneNumber]]]]

\* PhoneVerificationService.checkPhone on the rows that the lookups returned
checkPhone(rawInput, entries) ==
  LET parsed == parseAndValidatePhone(rawInput)
      agg == aggregateReports(entries.dbPhoneEntry, entries.dbPersonEntry)
      allReports == mergeAndSortReports(agg.phoneReports, agg.personReports)
      metrics == calculateTrustMetrics(allReports, entries.dbPhoneEntry, entries.dbPersonEntry)
  IN buildPhoneResponse(parsed.formattedQuery, parsed.isPhone, metrics.trustScore,
                        metrics.riskLevel, agg.company, allReports,
                        entries.dbPhoneEntry # NULL \/ entries.dbPersonEntry # NULL)

\* the emptiness test without trim()
IsBlankWithoutTrim(s) == Len(s) = 0

\* number.trim().length === 0
IsBlank(s) == \A i \in 1..Len(s) : s[i] = " "

\* GET verification/phone/:number
CheckPhone(rawInput, storage) ==
  /\ IF IsBlank(rawInput)
     THEN /\ last' = [op |-> "checkPhone", query |-> rawInput,
                      visible |-> [status |-> 400, message |-> "Phone number cannot be empty"],
                      result |-> NULL, failed |-> {}, at |-> now]
          /\ UNCHANGED phoneNumber
     ELSE LET parsed == parseAndValidatePhone(rawInput)
          IN \E entries \in fetchDatabaseEntries(parsed.formattedQuery, parsed.isPhone,
                                                 storage) :
               /\ last' = [op |-> "checkPhone", query |-> rawInput,
                           visible |-> [status |-> 200, message |-> "OK"],
                           result |-> checkPhone(rawInput, entries),
                           failed |-> FailedLookups(parsed.isPhone, storage), at |-> now]
               /\ phoneNumber' = PhoneTableAfterFetch(parsed.formattedQuery, parsed.isPhone)
  /\ UNCHANGED <<company, person, report, now, inflight>>

\* query.replace(/[^a-zA-Z0-9]/g, '')
CleanQuery(query) == SelectSeq(query, LAMBDA c : c \in Digits \cup Letters)

\* VerificationService.search
search(query) ==
  LET cleanQuery == CleanQuery(query)
      type == IF IsNip(cleanQuery) THEN "NIP"
              ELSE IF IsDigits(cleanQuery)
                      /\ (Len(cleanQuery) = 9
                          \/ (Len(cleanQuery) = 11 /\ StartsWith(cleanQuery, PL)))
              THEN "PHONE"
              ELSE "UNKNOWN"
  IN IF type = "NIP" THEN [type |-> "NIP", query |-> cleanQuery]
     ELSE IF type = "PHONE"
     THEN [type |-> "PHONE", query |-> cleanQuery, exists |-> PhoneRow(cleanQuery) # NULL]
     ELSE [type |-> "UNKNOWN", query |-> cleanQuery,
           error |-> "Invalid format. Provide NIP (10 digits) or phone number."]

\* GET verification/search/:query
Search(query) ==
  /\ IF IsBlank(query)
     THEN last' = [op |-> "search", query |-> query,
                   visible |-> [status |-> 400, message |-> "Query cannot be empty"],
                   result |-> NULL, at |-> now]
     ELSE last' = [op |-> "search", query |-> query,
                   visible |-> [status |-> 200, message |-> "OK"],
                   result |-> search(query), at |-> now]
  /\ UNCHANGED <<company, phoneNumber, person, report, now, inflight>>

\* VerificationService.updatePerson behind PATCH admin/person/:id
UpdatePerson(id, data) ==
  /\ IF id <= 0
     THEN /\ last' = [op |-> "updatePerson", id |-> id, outcome |-> "BadRequestException"]
          /\ UNCHANGED person
     ELSE IF id > Len(person)
     THEN /\ last' = [op |-> "updatePerson", id |-> id, outcome |-> "Error"]
          /\ UNCHANGED person
     ELSE /\ person' = [person EXCEPT ![id] =
                          [@ EXCEPT !.trustScore = data.trustScore,
                                    !.riskLevel = data.riskLevel]]
          /\ last' = [op |-> "updatePerson", id |-> id, outcome |-> "updated"]
  /\ UNCHANGED <<company, phoneNumber, report, now, inflight>>

\* time passes
Tick(maxTicks) ==
  /\ now < maxTicks * TickMs
  /\ now' = now + TickMs
  /\ UNCHANGED <<company, phoneNumber, person, report, last, inflight>>

\* ------------------------------------------------------------------ init
Init ==
  /\ company = [n \in ValidNips |-> NULL]
  /\ phoneNumber = [k \in PhoneKeys |-> NULL]
  /\ person = <<>>
  /\ report = <<>>
  /\ now = 0
  /\ last = [op |-> "init"]
  /\ inflight = [c \in Callers |-> Idle]

\* the request bodies the specifications draw from
Ratings == {2, 3}
OrgReportDtos == {[targetType |-> "NIP", targetValue |-> NipA, rating |-> r] : r \in Ratings}
CompanyEdits ==
  {[name |-> "Edited", trustScore |-> -10, riskLevel |-> "Critical", statusVat |-> "Czynny"],
   [name |-> "Edited", trustScore |-> 150, riskLevel |-> "Very Low", statusVat |-> "Czynny"]}

NextOrg ==
  \/ \E nip \in Nips, http \in HttpResponses(OrgSubjects) : CheckCompany(nip, http)
  \/ \E dto \in OrgReportDtos : CreateReport(dto, MaxOrgReports)
  \/ Tick(MaxTicks)

SpecOrg == Init /\ [][NextOrg]_vars

\* ------------------------------------------------- phone / person path
\* stores with Person rows and person-linked reports, which only a migration
\* or a direct database edit creates
SeedPhone ==
  [number |-> PhoneE164, countryCode |-> "PL", trustScore |-> 50,
   riskLevel |-> "Nieznany", companyNip |-> NoKey]
SeedPerson(name) == [id |-> 1, name |-> name, trustScore |-> 50, riskLevel |-> "Nieznany"]
PhoneSeeds ==
  {[phoneNumber |-> [k \in PhoneKeys |-> NULL], person |-> <<>>, report |-> <<>>],
   [phoneNumber |-> [k \in PhoneKeys |-> IF k = PhoneE164 THEN SeedPhone ELSE NULL],
    person |-> <<SeedPerson(PhoneE164)>>,
    report |-> <<[id |-> 1, rating |-> 1, companyNip |-> NoKey, phoneNumber |-> PhoneE164,
                  personId |-> 1, createdAt |-> 0]>>],
   [phoneNumber |-> [k \in PhoneKeys |-> NULL],
    person |-> <<SeedPerson(NameJan)>>,
    report |-> <<[id |-> 1, rating |-> 2, companyNip |-> NoKey, phoneNumber |-> NoKey,
                  personId |-> 1, createdAt |-> 0]>>]}

InitPhone ==
  /\ company = [n \in ValidNips |-> NULL]
  /\ \E seed \in PhoneSeeds :
       /\ phoneNumber = seed.phoneNumber
       /\ person = seed.person
       /\ report = seed.report
  /\ now = 0
  /\ last = [op |-> "init"]
  /\ inflight = [c \in Callers |-> Idle]

PhoneInputs == {PhoneRaw, PhoneE164, NameJan}
PhoneReportDtos ==
  {[targetType |-> "PHONE", targetValue |-> v, rating |-> r] :
     v \in {PhoneRaw, PhoneE164}, r \in Ratings}
  \cup {[targetType |-> "PERSON", targetValue |-> PhoneE164, rating |-> 2]}
PersonEdits ==
  {[trustScore |-> 80, riskLevel |-> "Niski"], [trustScore |-> -10, riskLevel |-> "Wysoki"]}

\* the database answers every lookup of this specification
NextPhone ==
  \/ \E rawInput \in PhoneInputs : CheckPhone(rawInput, StorageHealthy)
  \/ \E query \in PhoneInputs : Search(query)
  \/ \E dto \in PhoneReportDtos : CreateReport(dto, MaxPhoneReports)
  \/ \E data \in PersonEdits : UpdatePerson(1, data)
  \/ LinkPhone(NipA, PhoneE164)

SpecPhone == InitPhone /\ [][NextPhone]_vars

\* --------------------------------------------- lookups that can fail
NextStorage ==
  \/ \E rawInput \in PhoneInputs, storage \in StorageOutcomes : CheckPhone(rawInput, storage)
  \/ \E dto \in PhoneReportDtos : CreateReport(dto, MaxStorageReports)

SpecStorage == InitPhone /\ [][NextStorage]_vars

\* ---------------------------------------- scores that admins edit
ScoreHttp ==
  {[kind |-> "ok", cause |-> "found",
    subject |-> [name |-> "ACME", statusVat |-> "Zwolniony", accountNumbers |-> <<>>]]}
ScoreReportDtos ==
  {[targetType |-> "NIP", targetValue |-> NipA, rating |-> 2],
   [targetType |-> "PHONE", targetValue |-> PhoneE164, rating |-> 2]}
ScorePersonEdits ==
  {[trustScore |-> -10, riskLevel |-> "Wysoki"], [trustScore |-> 150, riskLevel |-> "Niski"]}

NextScore ==
  \/ \E http \in ScoreHttp : CheckCompany(NipA, http)
  \/ \E data \in CompanyEdits : UpdateCompany(NipA, data)
  \/ \E dto \in ScoreReportDtos : CreateReport(dto, MaxScoreReports)
  \/ \E rawInput \in {PhoneE164, NameJan} : CheckPhone(rawInput, StorageHealthy)
  \/ \E data \in ScorePersonEdits : UpdatePerson(1, data)

SpecScore == InitPhone /\ [][NextScore]_vars

\* ------------------------------------------------ rejected requests
\* tax ids of a wrong length or with a character that is no digit, and a
\* query of white space
LetterNip == <<"7", "0", "1", "0", "3", "0", "1", "2", "3", "A">>
LongNip == <<"7", "0", "1", "0", "3", "0", "1", "2", "3", "4", "5">>
Blank == <<" ">>
ValidationNips == Nips \cup {LetterNip, LongNip}

NextValidation ==
  \/ \E nip \in ValidationNips, http \in ScoreHttp : CheckCompany(nip, http)
  \/ \E rawInput \in {Blank, PhoneE164, NameJan} : CheckPhone(rawInput, StorageHealthy)
  \/ \E query \in {Blank, PhoneRaw, NipA} : Search(query)
  \/ \E dto \in ScoreReportDtos : CreateReport(dto, MaxValidationReports)

SpecValidation == InitPhone /\ [][NextValidation]_vars

\* --------------------------------------- overlapping report creation
LinkReportDtos ==
  {[targetType |-> "PHONE", targetValue |-> PhoneRaw, rating |-> 2],
   [targetType |-> "PERSON", targetValue |-> PhoneE164, rating |-> 3]}

NextLink ==
  \/ \E c \in Callers, dto \in LinkReportDtos : UpsertPhoneForReport(c, dto, MaxLinkReports)
  \/ \E c \in Callers : ConnectReport(c)
  \/ \E number \in {PhoneRaw, PhoneE164} : LinkPhone(NipA, number)
  \/ CheckPhone(PhoneE164, StorageHealthy)

SpecLink == InitPhone /\ [][NextLink]_vars

\* ------------------------------------------------- every operation
EngineHttp == ScoreHttp \cup {[kind |-> "ok", cause |-> "notfound", subject |-> NULL]}
EngineCompanyEdits ==
  {[name |-> "Edited", trustScore |-> 10, riskLevel |-> "Critical", statusVat |-> "Czynny"]}
EnginePersonEdits == {[trustScore |-> 80, riskLevel |-> "Niski"]}

NextEngine ==
  \/ \E http \in EngineHttp : CheckCompany(NipA, http)
  \/ CheckPhone(PhoneE164, StorageHealthy)
  \/ Search(PhoneRaw)
  \/ \E dto \in ScoreReportDtos : CreateReport(dto, MaxEngineReports)
  \/ \E data \in EngineCompanyEdits : UpdateCompany(NipA, data)
  \/ \E data \in EnginePersonEdits : UpdatePerson(1, data)
  \/ LinkPhone(NipA, PhoneE164)
  \/ Tick(MaxEngineTicks)

SpecEngine == InitPhone /\ [][NextEngine]_vars

\* ------------------------------------------- inputs that are no phone number
\* a lone plus sign cannot be parsed, six digits are no valid number of the
\* region, a number written with letters is rejected before parsing
PlusOnly == <<"+">>
ShortNumber == <<"1", "2", "3", "4", "5", "6">>
VanityNumber == <<"6", "0", "0", "1", "0", "0", "A", "B", "C">>
NormalizeInputs == {NameJan, PlusOnly, ShortNumber, VanityNumber, PhoneRaw}

\* stores in which a Person row carries such an input as its name
InitNormalize ==
  /\ company = [n \in ValidNips |-> NULL]
  /\ phoneNumber = [k \in PhoneKeys |-> NULL]
  /\ \E name \in NormalizeInputs : person = <<SeedPerson(name)>>
  /\ report \in {<<>>, <<[id |-> 1, rating |-> 2, companyNip |-> NoKey,
                            phoneNumber |-> NoKey, personId |-> 1, createdAt |-> 0]>>}
  /\ now = 0
  /\ last = [op |-> "init"]
  /\ inflight = [c \in Callers |-> Idle]

NextNormalize ==
  \/ \E rawInput \in NormalizeInputs : CheckPhone(rawInput, StorageHealthy)
  \/ \E data \in PersonEdits : UpdatePerson(1, data)
  \/ \E dto \in LinkReportDtos : CreateReport(dto, MaxNormalizeReports)

SpecNormalize == InitNormalize /\ [][NextNormalize]_vars

\* ------------------------------------------- canonical forms fed back
\* one number written in the ways callers write it, and a second number
\* whose canonical form only a reclassification submits
Phone48 == <<"4", "8">> \o PhoneRaw
Phone0048 == <<"0", "0">> \o Phone48
PhoneSpaced == <<"5", "0", "0", " ", "0", "0", "0", " ", "0", "0", "0">>
PhoneSpacedE164 == <<"+", "4", "8", "5", "0", "0", "0", "0", "0", "0", "0", "0">>
IdemInputs == {PhoneRaw, Phone48, Phone0048, PhoneSpaced, ShortNumber, NameJan}

\* the caller submits the query field of the answer it got as the next number
Reclassify ==
  /\ last.op = "checkPhone" /\ last.result # NULL
  /\ CheckPhone(last.result.query, StorageHealthy)

NextIdem ==
  \/ \E rawInput \in IdemInputs : CheckPhone(rawInput, StorageHealthy)
  \/ Reclassify
  \/ \E dto \in PhoneReportDtos : CreateReport(dto, MaxIdemReports)

SpecIdem == InitPhone /\ [][NextIdem]_vars

\* ------------------------------------------- stale rows with reports
\* the registry knows the tax id as active with an account or as exempt without
StaleHttp ==
  {[kind |-> "ok", cause |-> "found",
    subject |-> [name |-> "ACME", statusVat |-> "Czynny", accountNumbers |-> <<"PL61">>]],
   [kind |-> "ok", cause |-> "found",
    subject |-> [name |-> "ACME", statusVat |-> "Zwolniony", accountNumbers |-> <<>>]]}

NextStale ==
  \/ \E http \in StaleHttp : CheckCompany(NipA, http)
  \/ \E dto \in OrgReportDtos : CreateReport(dto, MaxStaleReports)
  \/ Tick(MaxStaleTicks)

SpecStale == Init /\ [][NextStale]_vars

\* ------------------------------------------- registry attributes
\* every combination of VAT status and bank accounts, and the registry's
\* other outcomes
NextBase ==
  \/ \E http \in HttpResponses(Subjects) : CheckCompany(NipA, http)
  \/ \E dto \in OrgReportDtos : CreateReport(dto, MaxBaseReports)
  \/ Tick(MaxBaseTicks)

SpecBase == Init /\ [][NextBase]_vars

\* ------------------------------------------- stored risk labels
\* admin edits that store a score at or just below a threshold next to a
\* label that does not fit it
RiskEdits ==
  {[name |-> "Edited", trustScore |-> t, riskLevel |-> "Critical", statusVat |-> "Czynny"] :
     t \in {80, 79, 50, 49, 20, 19}}

NextRisk ==
  \/ \E http \in StaleHttp : CheckCompany(NipA, http)
  \/ \E data \in RiskEdits : UpdateCompany(NipA, data)
  \/ \E dto \in OrgReportDtos : CreateReport(dto, MaxRiskReports)
  \/ LinkPhone(NipA, PhoneE164)

SpecRisk == Init /\ [][NextRisk]_vars

\* ------------------------------------------- reports of equal creation time
\* a number with a Person row of the same name and a report linked to the
\* Person only, after which reports are filed against the number
InitOrder ==
  /\ company = [n \in ValidNips |-> NULL]
  /\ phoneNumber = [k \in PhoneKeys |-> IF k = PhoneE164 THEN SeedPhone ELSE NULL]
  /\ person = <<SeedPerson(PhoneE164)>>
  /\ report \in
       {<<[id |-> 1, rating |-> 2, companyNip |-> NoKey, phoneNumber |-> NoKey,
           personId |-> 1, createdAt |-> 0]>>,
        <<[id |-> 1, rating |-> 2, companyNip |-> NoKey, phoneNumber |-> NoKey,
           personId |-> 1, createdAt |-> 0],
          [id |-> 2, rating |-> 1, companyNip |-> NoKey, phoneNumber |-> PhoneE164,
           personId |-> 1, createdAt |-> 0]>>}
  /\ now = 0
  /\ last = [op |-> "init"]
  /\ inflight = [c \in Callers |-> Idle]

OrderReportDtos ==
  {[targetType |-> "PHONE", targetValue |-> PhoneE164, rating |-> r] : r \in Ratings}

NextOrder ==
  \/ \E rawInput \in {PhoneRaw, NameJan} : CheckPhone(rawInput, StorageHealthy)
  \/ \E dto \in OrderReportDtos : CreateReport(dto, MaxOrderReports)
  \/ Tick(MaxOrderTicks)

SpecOrder == InitOrder /\ [][NextOrder]_vars

\* ------------------------------------------- reports that cannot be filed
\* a tax id that no operation of this specification stores, and a target
\* type that report creation does not support
NipB == <<"5", "2", "5", "0", "0", "0", "1", "0", "0", "9">>
RejectReportDtos ==
  {[targetType |-> "NIP", targetValue |-> NipA, rating |-> 2],
   [targetType |-> "NIP", targetValue |-> NipB, rating |-> 2],
   [targetType |-> "EMAIL", targetValue |-> NameJan, rating |-> 2],
   [targetType |-> "PHONE", targetValue |-> PhoneE164, rating |-> 3]}

NextReject ==
  \/ \E dto \in RejectReportDtos : CreateReport(dto, MaxRejectReports)
  \/ \E http \in EngineHttp : CheckCompany(NipA, http)
  \/ LinkPhone(NipA, PhoneE164)
  \/ CheckPhone(PhoneE164, StorageHealthy)

SpecReject == InitPhone /\ [][NextReject]_vars

\* ------------------------------------------- overlapping refreshes
\* the registry's answer before the overlapping requests, and its answers to them
EarlierHttp ==
  {[kind |-> "ok", cause |-> "found",
    subject |-> [name |-> "ACME sp. z o.o.", statusVat |-> "Zwolniony",
                 accountNumbers |-> <<>>]]}
RaceHttp ==
  {[kind |-> "ok", cause |-> "found",
    subject |-> [name |-> "ACME", statusVat |-> "Czynny", accountNumbers |-> <<"PL61">>]],
   [kind |-> "ok", cause |-> "notfound", subject |-> NULL]}
RaceReportDtos == {[targetType |-> "NIP", targetValue |-> NipA, rating |-> 2]}

\* no overlapping request has arrived yet
AllIdle == \A c \in Callers : inflight[c].pc = "idle"

\* an earlier request and reports, then two requests for the same tax id that
\* overlap, with nothing else running next to them
NextRace ==
  \/ AllIdle /\ \E http \in EarlierHttp : CheckCompany(NipA, http)
  \/ AllIdle /\ \E dto \in RaceReportDtos : CreateReport(dto, MaxRaceReports)
  \/ Tick(MaxRaceTicks)
  \/ \E c \in Callers : BeginVerify(c, NipA)
  \/ \E c \in Callers : ReadStats(c)
  \/ \E c \in Callers : ReadCompany(c)
  \/ \E c \in Callers, http \in RaceHttp : CallRegistry(c, http)
  \/ \E c \in Callers : WriteCompany(c)

SpecRace == Init /\ [][NextRace]_vars

\* ------------------------------------------- refreshes after admin edits
\* requests that refresh a row which an admin has edited or to which a
\* number has been linked in the meantime
NextEdit ==
  \/ \E http \in EarlierHttp : CheckCompany(NipA, http)
  \/ \E data \in EngineCompanyEdits : UpdateCompany(NipA, data)
  \/ LinkPhone(NipA, PhoneE164)
  \/ Tick(MaxEditTicks)
  \/ \E c \in Callers : BeginVerify(c, NipA)
  \/ \E c \in Callers : ReadStats(c)
  \/ \E c \in Callers : ReadCompany(c)
  \/ \E c \in Callers, http \in RaceHttp : CallRegistry(c, http)
  \/ \E c \in Callers : WriteCompany(c)

SpecEdit == Init /\ [][NextEdit]_vars

\* ------------------------------------------------------ evidence window
EvidenceHttp ==
  {[kind |-> "ok", cause |-> "found",
    subject |-> [name |-> "ACME", statusVat |-> "Czynny", accountNumbers |-> <<"PL61">>]]}
EvidenceReportDtos == {[targetType |-> "NIP", targetValue |-> NipA, rating |-> 2]}

\* the scenario of this specification: reports are filed at different times
NoReportAt(t) == \A i \in 1..Len(report) : report[i].createdAt # t

NextEvidence ==
  \/ \E http \in EvidenceHttp : CheckCompany(NipA, http)
  \/ \E dto \in EvidenceReportDtos :
       NoReportAt(now) /\ CreateReport(dto, MaxEvidenceReports)
  \/ Tick(MaxEvidenceTicks)

SpecEvidence == Init /\ [][NextEvidence]_vars

\* ================================================== organization path claims
\* registry calls made by a verify-organization request
Calls(l) == IF l.called THEN 1 ELSE 0

\* a verify-organization request for a well-formed tax id follows another one
\* for the same tax id, less than 24 hours later, with no request in between
ConsecutiveVerify ==
  /\ last.op = "checkCompany" /\ last'.op = "checkCompany"
  /\ now' = now
  /\ last'.query = last.query /\ IsNip(last.query)
  /\ last'.at - last.at < ONE_DAY_MS

\* C1, as stated: two verify-organization requests for one tax id made less
\* than 24 hours apart make at most one registry call in total, and the
\* second is answered from the store without a registry call.
C1_AtMostOneRegistryCall ==
  [][ConsecutiveVerify => (~last'.called /\ Calls(last) + Calls(last') <= 1)]_vars

\* C1, amended: when the first of the two requests returned a result, the two
\* make at most one registry call in total; when the first refreshed the
\* record from the registry, the second makes no registry call.
C1_FreshnessWindow ==
  [][(ConsecutiveVerify /\ last.svc = "ok") =>
        /\ Calls(last) + Calls(last') <= 1
        /\ (last.result.source = "LIVE_API" =>
              (~last'.called /\ last'.svc = "ok" /\ last'.result.source = "CACHE_DB"))]_vars

\* a request answered from the store, later than but within 24 hours of the
\* registry refresh that wrote the record
C1_Witness ==
  /\ last.op = "checkCompany" /\ last.svc = "ok"
  /\ last.result.source = "CACHE_DB"
  /\ company[last.query].rawData # NULL
  /\ last.at > company[last.query].updatedAt
  /\ last.at - company[last.query].updatedAt < ONE_DAY_MS

\* C2: when the registry reports a well-formed tax id as not found,
\* verify-organization ends with a well-formed result (no exception) that
\* carries trust score 0 and the most severe risk label.
C2_UnknownEntityResult ==
  (last.op = "checkCompany" /\ last.reg = "notfound") =>
     /\ last.svc = "ok" /\ last.visible.status = 200
     /\ last.result # NULL
     /\ last.result.trustScore = 0
     /\ last.result.riskLevel = "Critical"

\* C3: a verify-organization request whose registry call reports not found
\* writes nothing: no Company row is created and an existing one is unchanged.
C3_NotFoundWritesNothing ==
  [][(last'.op = "checkCompany" /\ last'.reg = "notfound") =>
        (company' = company /\ phoneNumber' = phoneNumber
         /\ person' = person /\ report' = report)]_vars

\* the registry reported not found for a tax id whose stale row is still there
C3_Witness ==
  /\ last.op = "checkCompany" /\ last.reg = "notfound"
  /\ company[last.query] # NULL
  /\ last.at - company[last.query].updatedAt >= ONE_DAY_MS

\* C4: a registry timeout, transport error or malformed payload ends the
\* lookup in a failure that is not the not-found outcome, with no result.
C4_UpstreamFailureIsNotNotFound ==
  (last.op = "checkCompany" /\ last.reg \in {"transport", "malformed"}) =>
     (last.svc = "Error" /\ last.result = NULL)

\* why a verify-organization request failed: rejected by validation, the
\* registry reported not found, or the registry call itself failed
FailureCause(l) ==
  IF l.op # "checkCompany" THEN "none"
  ELSE IF l.svc = "not called" THEN "validation"
  ELSE IF l.reg = "notfound" THEN "notfound"
  ELSE IF l.reg = "transport" THEN "upstream"
  ELSE "none"

\* C5: at the public interface the outcomes of not found, of an upstream
\* registry failure and of a validation failure are pairwise distinguishable:
\* two requests that failed for different causes show different outcomes.
C5_OutcomesDistinguishable ==
  [][(FailureCause(last) # "none" /\ FailureCause(last') # "none"
      /\ FailureCause(last) # FailureCause(last')) =>
        last.visible # last'.visible]_vars

\* ================================================= phone / person path claims
\* the last request was a verify-phone-or-person that returned a result
PhoneAnswered == last.op = "checkPhone" /\ last.result # NULL

\* the Person rows whose name is the canonical query
PersonsNamed(name) == {i \in 1..Len(person) : person[i].name = name}

\* a PhoneNumber row or a Person row exists for the canonical query
ExistsInStore(r) ==
  (r.isPhone /\ PhoneRow(r.query) # NULL) \/ PersonsNamed(r.query) # {}

\* the reports rated <= 2 whose phone link is a written form of the number
ReportsPointingAt(canonical) ==
  {i \in 1..Len(report) :
     /\ report[i].phoneNumber # NoKey
     /\ parseAndValidatePhone(report[i].phoneNumber).formattedQuery = canonical
     /\ report[i].rating <= 2}

\* C6: for a valid phone number with no PhoneNumber row and no Person row but
\* n reports rated <= 2 pointing at it, verify-phone-or-person returns score
\* max(0, 50 - 20 n) with risk 'Wysoki' (High) when n > 0, and score 50 with
\* risk 'Brak danych' (No data) when n = 0.
C6_NoPriorRecord ==
  (PhoneAnswered /\ last.result.isPhone /\ ~ExistsInStore(last.result)) =>
     LET n == Cardinality(ReportsPointingAt(last.result.query))
     IN IF n > 0
        THEN last.result.trustScore = Max(0, 50 - 20 * n) /\ last.result.riskLevel = "Wysoki"
        ELSE last.result.trustScore = 50 /\ last.result.riskLevel = "Brak danych"

\* the row whose score counts: the PhoneNumber row if there is one, else the Person row
StoredRow(r) ==
  IF r.isPhone /\ PhoneRow(r.query) # NULL THEN PhoneRow(r.query)
  ELSE person[CHOOSE i \in PersonsNamed(r.query) : TRUE]

\* the reports rated <= 2 reachable from the resolved rows
ReachableNegatives(r) ==
  {i \in 1..Len(report) :
     /\ report[i].rating <= 2
     /\ \/ (r.isPhone /\ PhoneRow(r.query) # NULL /\ report[i].phoneNumber = r.query)
        \/ report[i].personId \in PersonsNamed(r.query)}

\* C7, as stated: with a PhoneNumber or Person row, negativeCount > 0 and a
\* stored score of exactly 50 give max(0, 50 - 15 negativeCount) and risk
\* 'Podwyzszone' (Elevated); in every other case the stored score and the
\* stored risk label are returned as they are.
C7_StoredScoreAsIs ==
  (PhoneAnswered /\ ExistsInStore(last.result)) =>
     LET n == Cardinality(ReachableNegatives(last.result))
         stored == StoredRow(last.result)
     IN IF n > 0 /\ stored.trustScore = 50
        THEN /\ last.result.trustScore = Max(0, 50 - 15 * n)
             /\ last.result.riskLevel = Podwyzszone
        ELSE /\ last.result.trustScore = stored.trustScore
             /\ last.result.riskLevel = stored.riskLevel

\* C7, amended: in every other case the stored score floored at 0 and the
\* stored risk label are returned.
C7_StoredScoreFloored ==
  (PhoneAnswered /\ ExistsInStore(last.result)) =>
     LET n == Cardinality(ReachableNegatives(last.result))
         stored == StoredRow(last.result)
     IN IF n > 0 /\ stored.trustScore = 50
        THEN /\ last.result.trustScore = Max(0, 50 - 15 * n)
             /\ last.result.riskLevel = Podwyzszone
        ELSE /\ last.result.trustScore = Max(0, stored.trustScore)
             /\ last.result.riskLevel = stored.riskLevel

\* a stored score other than 50 is returned in spite of negative reports
C7_Witness ==
  /\ PhoneAnswered /\ ExistsInStore(last.result)
  /\ Cardinality(ReachableNegatives(last.result)) > 0
  /\ StoredRow(last.result).trustScore = 70
  /\ last.result.trustScore = 70

StoreUnchanged ==
  company' = company /\ phoneNumber' = phoneNumber /\ person' = person /\ report' = report

\* C8: verify-phone-or-person and search write nothing, so repeating
\* verify-phone-or-person returns the same score and risk: the penalty for
\* negative reports does not compound.
C8_ReadsDoNotWrite ==
  [][/\ (last'.op \in {"checkPhone", "search"} => StoreUnchanged)
     /\ (PhoneAnswered /\ last'.op = "checkPhone" /\ last'.result # NULL
         /\ last'.query = last.query) =>
           (last'.result.trustScore = last.result.trustScore
            /\ last'.result.riskLevel = last.result.riskLevel)]_vars

\* a penalised answer while the stored score is still the default
C8_Witness ==
  /\ PhoneAnswered /\ last.result.isPhone
  /\ PhoneRow(last.result.query) # NULL
  /\ PhoneRow(last.result.query).trustScore = 50
  /\ last.result.trustScore = 35

\* C9, as stated: after verify-phone-or-person on a valid number, a
\* PhoneNumber row for its canonical form exists.
C9_LookupCreatesPhone ==
  (PhoneAnswered /\ last.result.isPhone) => PhoneRow(last.result.query) # NULL

\* C9, amended: a PhoneNumber row is created, with trust score 50, by the
\* first report filed against a number that is not in the store, and
\* verify-phone-or-person creates none.
C9_ReportCreatesPhone ==
  [][/\ (last'.op = "checkPhone" => phoneNumber' = phoneNumber)
     /\ (last'.op = "createReport" /\ last'.outcome = "created"
         /\ last'.dto.targetType \in {"PHONE", "PERSON"}) =>
           /\ phoneNumber'[last'.dto.targetValue] # NULL
           /\ (phoneNumber[last'.dto.targetValue] = NULL =>
                 phoneNumber'[last'.dto.targetValue].trustScore = 50)
           /\ (phoneNumber[last'.dto.targetValue] # NULL =>
                 phoneNumber'[last'.dto.targetValue] = phoneNumber[last'.dto.targetValue])]_vars

\* a valid number was looked up and still has no PhoneNumber row
C9_Witness ==
  PhoneAnswered /\ last.result.isPhone /\ PhoneRow(last.result.query) = NULL

\* C10: verify-organization returns as evidence the 5 most recently created
\* reports of the tax id: with more than 5 reports, every returned report is
\* at least as recent as every omitted one.
C10_MostRecentReports ==
  (last.op = "checkCompany" /\ last.svc = "ok") =>
     LET comments == last.result.community.latestComments
         shown == {comments[i].id : i \in 1..Len(comments)}
         all == {i \in 1..Len(report) : report[i].companyNip = last.query}
     IN /\ Cardinality(shown) = (IF Cardinality(all) < 5 THEN Cardinality(all) ELSE 5)
        /\ \A i \in shown, j \in all \ shown : report[i].createdAt >= report[j].createdAt

\* the reports reachable from the rows that the query resolves to: those linked
\* to the PhoneNumber row of the canonical number, and those linked to the
\* Person row named like the canonical query
ReachableReports(r) ==
  {i \in 1..Len(report) :
     \/ (r.isPhone /\ PhoneRow(r.query) # NULL /\ report[i].phoneNumber = r.query)
     \/ report[i].personId \in PersonsNamed(r.query)}

\* the reports that the entries of an evidence list were built from
EvidenceIds(r) ==
  [i \in 1..Len(r.community.latestComments) |-> r.community.latestComments[i].id]

\* C11: the evidence list of verify-phone-or-person holds every report
\* reachable from the resolved PhoneNumber row or the resolved Person row
\* exactly once: a report reachable both ways is one entry, no two entries are
\* built from the same report, and no reachable report is missing.
C11_EvidenceExactlyOnce ==
  PhoneAnswered =>
     LET ids == EvidenceIds(last.result)
     IN /\ {ids[i] : i \in 1..Len(ids)} = ReachableReports(last.result)
        /\ \A i, j \in 1..Len(ids) : ids[i] = ids[j] => i = j
        /\ last.result.community.totalReports = Cardinality(ReachableReports(last.result))

\* a report linked to both the PhoneNumber row and the Person row of the query
\* is in an evidence list next to a report linked to the PhoneNumber row only
C11_Witness ==
  /\ PhoneAnswered /\ last.result.isPhone /\ PhoneRow(last.result.query) # NULL
  /\ \E i \in 1..Len(report) :
       /\ report[i].phoneNumber = last.result.query
       /\ report[i].personId \in PersonsNamed(last.result.query)
  /\ \E i \in 1..Len(report) :
       report[i].phoneNumber = last.result.query /\ report[i].personId = 0
  /\ Len(last.result.community.latestComments) = 2

\* C12: a storage failure during verify-phone-or-person (the PhoneNumber
\* lookup or the Person lookup rejects) reaches the caller as a failure: the
\* request does not end in a normal result.
C12_StorageFailurePropagates ==
  (last.op = "checkPhone" /\ last.failed # {}) =>
     (last.visible.status # 200 /\ last.result = NULL)

\* ================================================ overlapping refresh claims
\* both overlapping requests have ended after a registry call that reported found
BothRefreshed ==
  \A c \in Callers : inflight[c].pc = "done" /\ inflight[c].reg = "found"

\* C13: when two overlapping verify-organization requests for the same absent
\* or stale tax id both get the same found response from the registry, then
\* in every interleaving both end with the same score and risk and source
\* LIVE_API, and the store holds one Company row for the tax id with the
\* values derived from that response.
C13_ConcurrentRefresh ==
  BothRefreshed =>
     /\ \A c \in Callers :
          inflight[c].svc = "ok" /\ inflight[c].result.source = "LIVE_API"
     /\ \A c, d \in Callers :
          /\ inflight[c].result.trustScore = inflight[d].result.trustScore
          /\ inflight[c].result.riskLevel = inflight[d].result.riskLevel
     /\ company[NipA] # NULL
     /\ company[NipA].nip = NipA
     /\ company[NipA].name = "ACME" /\ company[NipA].statusVat = "Czynny"
     /\ company[NipA].trustScore = 90 /\ company[NipA].riskLevel = "Very Low"
     /\ company[NipA].rawData.found /\ company[NipA].rawData.name = "ACME"

\* both requests read the same stale row before either wrote, and both
\* answered with the refreshed score less the penalty of one negative report
C13_Witness ==
  /\ BothRefreshed
  /\ \A c \in Callers :
       /\ inflight[c].cachedCompany # NULL
       /\ inflight[c].cachedCompany.name = "ACME sp. z o.o."
       /\ inflight[c].result.trustScore = 75

\* ============================================================ score claims
\* C14: the trust score that verify-organization and verify-phone-or-person
\* return is never negative, whatever the stored or registry-derived score
\* and the number of negative reports; nothing caps it from above: without
\* negative reports a stored score is returned as it is unless it is negative.
C14_ScoreFloor ==
  /\ (last.op \in {"checkCompany", "checkPhone"} /\ last.result # NULL) =>
        last.result.trustScore >= 0
  /\ (last.op = "checkCompany" /\ last.result # NULL
      /\ last.result.source = "CACHE_DB" /\ last.result.community.alerts = 0) =>
        last.result.trustScore = Max(0, company[last.query].trustScore)
  /\ (PhoneAnswered /\ ExistsInStore(last.result) /\ last.result.community.alerts = 0) =>
        last.result.trustScore = Max(0, StoredRow(last.result).trustScore)

\* a registry-derived score of 30 with three negative reports is answered with 0
C14_Witness ==
  /\ last.op = "checkCompany" /\ last.result # NULL
  /\ company[last.query].trustScore = 30
  /\ last.result.community.alerts = 3
  /\ last.result.trustScore = 0

\* ================================================ cache arbiter claims
\* a verify-organization request for a well-formed tax id is handled in this step
VerifyStep == last'.op = "checkCompany" /\ IsNip(last'.query) /\ now' = now

\* the reports rated <= 2 of a tax id
NegativesOf(nip) ==
  Cardinality({i \in 1..Len(report) : report[i].companyNip = nip /\ report[i].rating <= 2})

\* C15: when a Company row for the tax id exists and is less than 24 hours
\* old, verify-organization answers with source CACHE_DB, takes the stored
\* trust score as base score and leaves the row, updatedAt included, as it
\* is; when the row is absent or 24 hours old or older, the registry is called.
C15_FreshRowServedFromStore ==
  [][VerifyStep =>
       LET row == company[last'.query]
       IN IF row # NULL /\ now - row.updatedAt < ONE_DAY_MS
          THEN /\ ~last'.called /\ last'.svc = "ok"
               /\ last'.result.source = "CACHE_DB"
               /\ last'.result.trustScore =
                    Max(0, row.trustScore - 15 * NegativesOf(last'.query))
               /\ company' = company
          ELSE last'.called]_vars

\* a row that is 12 hours old is served from the store with the penalty of
\* one negative report on its stored score
C15_Witness ==
  /\ last.op = "checkCompany" /\ last.svc = "ok"
  /\ last.result.source = "CACHE_DB"
  /\ last.at - company[last.query].updatedAt = TickMs
  /\ company[last.query].trustScore = 90
  /\ last.result.community.alerts = 1
  /\ last.result.trustScore = 75

\* C16: when the Company row is absent or stale and the registry reports
\* found, then after verify-organization the row of the tax id holds the name,
\* VAT status, trust score, risk level and raw payload derived from this
\* response, the stored trust score being the base score and not the score
\* reduced by reports; updatedAt is now and the answer's source is LIVE_API.
C16_RefreshWritesRegistryValues ==
  [][(VerifyStep /\ last'.called /\ last'.reg = "found") =>
       LET s == last'.subject
           row == company'[last'.query]
           base == 30 + (IF s.statusVat = "Czynny" THEN 40 ELSE 0)
                      + (IF Len(s.accountNumbers) > 0 THEN 20 ELSE 0)
       IN /\ row # NULL /\ row.nip = last'.query
          /\ row.name = s.name /\ row.statusVat = s.statusVat
          /\ row.trustScore = base
          /\ row.riskLevel = calculateRiskLevel(base)
          /\ row.rawData.found
          /\ row.rawData.name = s.name /\ row.rawData.statusVat = s.statusVat
          /\ row.rawData.accountNumbers = s.accountNumbers
          /\ row.updatedAt = now
          /\ last'.svc = "ok" /\ last'.result.source = "LIVE_API"
          /\ last'.result.trustScore = Max(0, base - 15 * NegativesOf(last'.query))]_vars

\* a stale row was refreshed while a negative report lowered the answer: the
\* row holds the base score, the answer the reduced one
C16_Witness ==
  /\ last.op = "checkCompany" /\ last.svc = "ok"
  /\ last.result.source = "LIVE_API"
  /\ last.at = company[last.query].updatedAt /\ last.at >= ONE_DAY_MS
  /\ last.result.community.alerts >= 1
  /\ last.result.trustScore < company[last.query].trustScore

\* ======================================================== validation claims
\* a query that holds nothing but white space
OnlyWhiteSpace(s) == \A i \in 1..Len(s) : s[i] = " "

\* a tax id of exactly 10 digits
TenDigits(s) == Len(s) = 10 /\ \A i \in 1..10 : s[i] \in Digits

\* C17: a tax id that is not exactly 10 digits, and a query of nothing but
\* white space, is rejected as a validation failure (400) without a registry
\* call, without a result read from the store and with the store unchanged.
C17_RejectedBeforeAccess ==
  [][/\ (last'.op = "checkCompany" /\ ~TenDigits(last'.query)) =>
          /\ last'.visible.status = 400
          /\ last'.svc \in {"not called", "BadRequestException"}
          /\ ~last'.called /\ last'.result = NULL
          /\ StoreUnchanged
     /\ (last'.op \in {"checkPhone", "search"} /\ OnlyWhiteSpace(last'.query)) =>
          /\ last'.visible.status = 400
          /\ last'.result = NULL
          /\ StoreUnchanged]_vars

\* a query of white space was rejected while the store holds rows it could
\* have been matched against
C17_Witness ==
  /\ last.op = "checkPhone" /\ OnlyWhiteSpace(last.query)
  /\ last.visible.status = 400
  /\ Len(person) > 0 /\ Len(report) > 1

\* ================================================== report creation claims
\* every Report linked to a phone number is linked to an existing PhoneNumber row
LinksValid ==
  \A i \in 1..Len(report) :
     report[i].phoneNumber # NoKey => PhoneRow(report[i].phoneNumber) # NULL

\* caller c passes its upsert in this step
UpsertStep(c) == inflight[c].pc = "idle" /\ inflight'[c].pc = "report.create"

\* caller c passes its report.create in this step
ConnectStep(c) == inflight[c].pc = "report.create" /\ inflight'[c].pc = "idle"

\* C18: creating a report with a PHONE or PERSON target first upserts the
\* PhoneNumber row of the target (created with trust score 50 when absent,
\* left as it is when present) and then creates the Report linked to exactly
\* that number; whatever runs in between, every Report's phone link refers to
\* an existing PhoneNumber row.
C18_UpsertThenLink ==
  [][/\ LinksValid /\ LinksValid'
     /\ \A c \in Callers :
          /\ UpsertStep(c) =>
               LET t == inflight'[c].dto.targetValue
               IN /\ phoneNumber'[t] # NULL
                  /\ (phoneNumber[t] = NULL =>
                        phoneNumber'[t].number = t /\ phoneNumber'[t].trustScore = 50)
                  /\ (phoneNumber[t] # NULL => phoneNumber'[t] = phoneNumber[t])
                  /\ \A k \in PhoneKeys \ {t} : phoneNumber'[k] = phoneNumber[k]
          /\ ConnectStep(c) =>
               LET t == inflight[c].dto.targetValue
               IN /\ last'.outcome = "created"
                  /\ Len(report') = Len(report) + 1
                  /\ SubSeq(report', 1, Len(report)) = report
                  /\ report'[Len(report')].phoneNumber = t
                  /\ report'[Len(report')].companyNip = NoKey
                  /\ PhoneRow(t) # NULL /\ phoneNumber' = phoneNumber]_vars

\* a report was created for a number whose row, created by a report's upsert,
\* an admin has linked to a company, while another report creation for the
\* same number is between its upsert and its create
C18_Witness ==
  /\ last.op = "createReport" /\ last.outcome = "created"
  /\ last.dto.targetValue = PhoneRaw
  /\ report[Len(report)].phoneNumber = PhoneRaw
  /\ phoneNumber[PhoneRaw] # NULL /\ phoneNumber[PhoneRaw].companyNip = NipA
  /\ \E c \in Callers :
       inflight[c].pc = "report.create" /\ inflight[c].dto.targetValue = PhoneRaw

\* ============================================================ store claims
\* C19: no operation removes a Company, PhoneNumber, Person or Report row:
\* in every step every row that exists still exists afterwards under the
\* same key.
C19_NothingIsRemoved ==
  [][/\ \A n \in ValidNips : company[n] # NULL =>
          (company'[n] # NULL /\ company'[n].nip = n)
     /\ \A k \in PhoneKeys : phoneNumber[k] # NULL =>
          (phoneNumber'[k] # NULL /\ phoneNumber'[k].number = k)
     /\ Len(person') >= Len(person)
     /\ \A i \in 1..Len(person) : person'[i].id = person[i].id
     /\ Len(report') >= Len(report)
     /\ \A i \in 1..Len(report) : report'[i].id = report[i].id]_vars

\* the registry reported not found for a tax id whose stale row, with a
\* linked phone number and a report, is still in the store
C19_Witness ==
  /\ last.op = "checkCompany" /\ last.reg = "notfound"
  /\ company[NipA] # NULL
  /\ phoneNumber[PhoneE164] # NULL /\ phoneNumber[PhoneE164].companyNip = NipA
  /\ Len(report) > 0 /\ Len(person) > 0

\* ===================================================== normalization claims
\* the input contains a letter, cannot be parsed or is no valid number
NoPhoneNumber(rawInput) ==
  \/ \E i \in 1..Len(rawInput) : rawInput[i] \in Letters
  \/ ~ParsePhone(rawInput).ok
  \/ ~IsValidNumber(ParsePhone(rawInput))

\* C20: normalization never raises: for an input that contains a letter,
\* fails parsing or fails validation, verify-phone-or-person answers normally
\* with isPhone = false and the input unchanged as canonical form, and the
\* answer is that of the Person lookup by this name.
C20_DegradesToName ==
  (last.op = "checkPhone" /\ ~OnlyWhiteSpace(last.query) /\ NoPhoneNumber(last.query)) =>
     /\ last.visible.status = 200 /\ last.result # NULL
     /\ ~last.result.isPhone
     /\ last.result.query = last.query
     /\ last.result.source = (IF PersonsNamed(last.query) # {} THEN "DB" ELSE "None")
     /\ last.result.community.totalReports =
          Cardinality({i \in 1..Len(report) : report[i].personId \in PersonsNamed(last.query)})

\* six digits, no valid number, were looked up as a name and matched the
\* Person row of that name and its report
C20_Witness ==
  /\ last.op = "checkPhone" /\ last.query = ShortNumber
  /\ last.result # NULL /\ ~last.result.isPhone
  /\ last.result.source = "DB"
  /\ last.result.community.totalReports = 1

\* C21: normalization is idempotent on phone numbers: when an input was
\* accepted as a phone number and its canonical form is submitted next, the
\* answer has the same kind and the same canonical form.
C21_NormalizationIdempotent ==
  [][(/\ last.op = "checkPhone" /\ last.result # NULL /\ last.result.isPhone
      /\ last'.op = "checkPhone" /\ last'.query = last.result.query)
     => (/\ last'.result # NULL
         /\ last'.result.isPhone
         /\ last'.result.query = last.result.query)]_vars

\* the canonical form of the number written with spaces, which no caller
\* submits directly, was classified again and came back as itself
C21_Witness ==
  /\ last.op = "checkPhone" /\ last.query = PhoneSpacedE164
  /\ last.result # NULL /\ last.result.isPhone
  /\ last.result.query = PhoneSpacedE164

\* ================================================ report penalty claims
\* C22: verify-organization answers with max(0, base - 15 * negatives), the
\* negatives being the reports of the tax id rated <= 2 and the base the
\* stored score of a fresh row or else the score derived from the registry's
\* response; a row of 24 hours or more is refreshed before the penalty applies.
C22_PenaltyOnEitherBase ==
  [][(VerifyStep /\ last'.svc = "ok") =>
       LET row == company[last'.query]
           s == last'.subject
           base == IF last'.called
                   THEN 30 + (IF s.statusVat = "Czynny" THEN 40 ELSE 0)
                           + (IF Len(s.accountNumbers) > 0 THEN 20 ELSE 0)
                   ELSE row.trustScore
           expected == base - 15 * NegativesOf(last'.query)
       IN /\ last'.result.trustScore = (IF expected < 0 THEN 0 ELSE expected)
          /\ last'.result.community.alerts = NegativesOf(last'.query)
          /\ (row # NULL /\ now - row.updatedAt >= ONE_DAY_MS) =>
                (last'.called /\ last'.result.source = "LIVE_API")]_vars

\* a row with two negative reports filed before this request was refreshed
\* by it to base score 90 and answered with 60
C22_Witness ==
  /\ last.op = "checkCompany" /\ last.svc = "ok"
  /\ last.result.source = "LIVE_API"
  /\ Len(report) = 2
  /\ \A i \in 1..2 : report[i].rating <= 2 /\ report[i].createdAt < last.at
  /\ company[last.query].updatedAt = last.at
  /\ company[last.query].trustScore = 90
  /\ last.result.trustScore = 60

\* ================================================ base score claims
\* the points of a registry subject: 30 for being found, 40 for VAT status
\* 'Czynny', 20 for at least one bank account
PointsOf(s) ==
  30 + (IF s.statusVat = "Czynny" THEN 40 ELSE 0)
     + (IF Len(s.accountNumbers) > 0 THEN 20 ELSE 0)

\* C23: the base score that a registry refresh stores is 30 for a found
\* organization, plus 40 for the active VAT status, plus 20 for at least one
\* bank account, hence one of 30, 50, 70, 90; without negative reports it is
\* the score of the answer, 90 for an active organization with an account.
C23_BaseScoreFromRegistry ==
  (last.op = "checkCompany" /\ last.called /\ last.reg = "found") =>
     /\ last.svc = "ok"
     /\ company[last.query].trustScore = PointsOf(last.subject)
     /\ company[last.query].trustScore \in {30, 50, 70, 90}
     /\ (last.result.community.alerts = 0 =>
           last.result.trustScore = PointsOf(last.subject))
     /\ (last.result.community.alerts = 0 /\ last.subject.statusVat = "Czynny"
         /\ Len(last.subject.accountNumbers) > 0) => last.result.trustScore = 90

\* a tax id without reports, found as active with a bank account, is answered
\* from the registry with score 90 and risk 'Very Low'
C23_Witness ==
  /\ last.op = "checkCompany" /\ last.called /\ last.reg = "found"
  /\ last.subject.statusVat = "Czynny" /\ Len(last.subject.accountNumbers) > 0
  /\ report = <<>>
  /\ last.result.source = "LIVE_API"
  /\ last.result.trustScore = 90 /\ last.result.riskLevel = "Very Low"

\* ================================================ risk level claims
\* C24: the risk level of a verify-organization answer depends on the score
\* of the answer only, the score after the reports' penalty: 'Very Low' from
\* 80, 'Medium' from 50, 'High' from 20, 'Critical' below; the stored label
\* plays no part.
C24_RiskFromFinalScore ==
  (last.op = "checkCompany" /\ last.result # NULL) =>
     LET score == last.result.trustScore
         risk == last.result.riskLevel
     IN /\ (score >= 80 => risk = "Very Low")
        /\ (score >= 50 /\ score < 80 => risk = "Medium")
        /\ (score >= 20 /\ score < 50 => risk = "High")
        /\ (score < 20 => risk = "Critical")

\* a stored score of 80 with the stored label 'Critical' is answered from
\* the store as 'Very Low' without reports
C24_Witness ==
  /\ last.op = "checkCompany" /\ last.result # NULL
  /\ last.result.source = "CACHE_DB"
  /\ company[last.query].trustScore = 80
  /\ company[last.query].riskLevel = "Critical"
  /\ last.result.community.alerts = 0
  /\ last.result.trustScore = 80 /\ last.result.riskLevel = "Very Low"

\* ================================================ evidence order claims
\* C25: the evidence list of verify-phone-or-person is ordered by creation
\* time descending, and reports of equal creation time stand in the order of
\* their first occurrence in the concatenation of the phone-linked and then
\* the person-linked reports, for the lists that the lookups can have returned.
C25_NewestFirstStable ==
  PhoneAnswered =>
    \E entries \in fetchDatabaseEntries(last.result.query, last.result.isPhone,
                                        StorageHealthy) :
      LET ph == IF entries.dbPhoneEntry # NULL THEN entries.dbPhoneEntry.reports ELSE <<>>
          pe == IF entries.dbPersonEntry # NULL THEN entries.dbPersonEntry.reports ELSE <<>>
          cat == ph \o pe
          First(id) == CHOOSE k \in 1..Len(cat) :
                         cat[k].id = id /\ \A m \in 1..(k - 1) : cat[m].id # id
          list == last.result.community.latestComments
      IN /\ {list[i].id : i \in 1..Len(list)} = {cat[k].id : k \in 1..Len(cat)}
         /\ \A i, j \in 1..Len(list) :
              i < j => /\ list[i].date >= list[j].date
                       /\ (list[i].date = list[j].date =>
                             First(list[i].id) < First(list[j].id))

\* a newer report stands first; behind it, of two reports of equal creation
\* time, the one linked to the number stands before the one linked to the
\* Person only, which has the smaller id
C25_Witness ==
  /\ PhoneAnswered
  /\ Len(last.result.community.latestComments) >= 3
  /\ LET list == last.result.community.latestComments
     IN /\ list[1].date > list[2].date
        /\ \E i \in 2..(Len(list) - 1) :
             /\ list[i].date = list[i + 1].date
             /\ list[i].phoneNumber = PhoneE164 /\ list[i + 1].phoneNumber = NoKey
             /\ list[i].id > list[i + 1].id

\* ================================================ placeholder row claims
\* C26: a verify-organization request for a tax id whose Company row is
\* absent or has never been written from a registry response (no raw
\* payload) consults the registry; it is never answered from the store.
C26_PlaceholderNotServed ==
  (/\ last.op = "checkCompany" /\ TenDigits(last.query)
   /\ (company[last.query] = NULL \/ company[last.query].rawData = NULL))
  => (last.called /\ (last.result # NULL => last.result.source # "CACHE_DB"))

\* ================================================ lookup key claims
\* C27: the reports filed through report creation against a valid phone
\* number X are part of the evidence of a later verify-phone-or-person(X),
\* and those rated <= 2 are counted in its alerts.
C27_FiledReportIsCounted ==
  (PhoneAnswered /\ last.result.isPhone) =>
     LET filed == {i \in 1..Len(report) : report[i].phoneNumber = last.query}
         list == last.result.community.latestComments
     IN /\ filed \subseteq {list[k].id : k \in 1..Len(list)}
        /\ last.result.community.alerts >=
             Cardinality({i \in filed : report[i].rating <= 2})

\* C28: when search classifies a query as PHONE, it reports exists = true
\* exactly when a PhoneNumber row exists under the key that
\* verify-phone-or-person resolves for the same query.
C28_SearchAgreesWithVerify ==
  (last.op = "search" /\ last.result # NULL /\ last.result.type = "PHONE") =>
     (last.result.exists <=>
        PhoneRow(parseAndValidatePhone(last.query).formattedQuery) # NULL)

\* ================================================ report creation claims
\* C29: report creation with target type NIP for a tax id without a Company
\* row, or with a target type other than NIP, PHONE and PERSON, fails and
\* writes nothing: no Report, no Company and no PhoneNumber row is created.
C29_RejectedReportWritesNothing ==
  [][(/\ last'.op = "createReport"
      /\ \/ /\ last'.dto.targetType = "NIP"
            /\ (last'.dto.targetValue \notin DOMAIN company
                \/ company[last'.dto.targetValue] = NULL)
         \/ last'.dto.targetType \notin {"NIP", "PHONE", "PERSON"})
     => (/\ last'.outcome # "created"
         /\ company' = company /\ phoneNumber' = phoneNumber
         /\ person' = person /\ report' = report)]_vars

\* a report against a tax id without a Company row failed, and no report of
\* that tax id is in the store
C29_Witness ==
  /\ last.op = "createReport" /\ last.dto.targetType = "NIP"
  /\ last.outcome = "Error"
  /\ CompanyRow(last.dto.targetValue) = NULL
  /\ \A i \in 1..Len(report) : report[i].companyNip # last.dto.targetValue

\* ================================================ admin edit claims
\* the request of caller c writes the registry's values and answers
RefreshStep(c) == inflight[c].pc = "upsert" /\ inflight'[c].pc = "done"

\* C30: a verify-organization request on the LIVE path sets the stored name,
\* VAT status, trust score and risk level to the values derived from the
\* registry's response, whatever an admin had stored there; it changes no
\* PhoneNumber row, and the answer carries the numbers that were linked to
\* the organization when the request read its row, which are still linked.
C30_RefreshOverwritesEdits ==
  [][\A c \in Callers : RefreshStep(c) =>
       LET nip == inflight[c].nip
           s == inflight[c].vatData
           row == company'[nip]
           points == PointsOf(s)
       IN /\ row # NULL
          /\ row.name = s.name /\ row.statusVat = s.statusVat
          /\ row.trustScore = points
          /\ row.riskLevel = (IF points >= 80 THEN "Very Low"
                               ELSE IF points >= 50 THEN "Medium" ELSE "High")
          /\ phoneNumber' = phoneNumber
          /\ inflight'[c].result.source = "LIVE_API"
          /\ inflight'[c].result.phones = inflight[c].phones
          /\ \A k \in inflight'[c].result.phones :
                phoneNumber'[k] # NULL /\ phoneNumber'[k].companyNip = nip]_vars

\* a request that read the row as an admin had edited it, with a linked
\* number, has refreshed it: the row holds the registry's values and the
\* answer carries the number
C30_Witness ==
  \E c \in Callers :
    /\ inflight[c].pc = "done" /\ inflight[c].svc = "ok"
    /\ inflight[c].cachedCompany # NULL
    /\ inflight[c].cachedCompany.name = "Edited"
    /\ inflight[c].cachedCompany.trustScore = 10
    /\ inflight[c].result.source = "LIVE_API"
    /\ inflight[c].result.phones = {PhoneE164}
    /\ phoneNumber[PhoneE164] # NULL /\ phoneNumber[PhoneE164].companyNip = NipA
    /\ company[NipA].name = "ACME" /\ company[NipA].statusVat = "Czynny"
    /\ company[NipA].trustScore = 90 /\ company[NipA].riskLevel = "Very Low"
    /\ company[NipA].updatedAt = inflight[c].at
====
